---- MODULE Spec2Model ----
(***************************************************************************)
(* Model of backend/src/helpers/secrets.ts: the authorization dispatcher   *)
(* (validateClientForSecret, validateClientForSecrets) and the blind-index *)
(* helpers (createSecretBlindIndexHelper, getSecretBlindIndexHelper).      *)
(*                                                                         *)
(* Every `await` of the source is a suspension point: a call is split into *)
(* one action per stretch of code that runs between two suspension points. *)
(* The repository (Secret, SecretBlindIndexData), the principal validators *)
(* and the crypto primitives are collaborators: the repository is a state  *)
(* variable the helpers only read, a validator's reply is an input drawn   *)
(* from ValidatorReplies, and the salt crypto.randomBytes returns is an    *)
(* input drawn from Salts.                                                 *)
(***************************************************************************)
EXTENDS Integers, Sequences, FiniteSets

\* ------------------------------------------------------------------ bounds
\* Number of secret identifiers a request can name (1..NumIds).
NumIds == 3
\* Longest secretIds array of a validateClientForSecrets request.
MaxBatch == 2
\* Number of call slots (calls that can be in flight at once).
MaxCalls == 2
\* Number of distinct values crypto.randomBytes can return.
NumSalts == 2
\* Number of blind-index helper calls of one run.
MaxIndexCalls == 3

VARIABLES
    repo,        \* Secret collection: _id -> document
    pc,          \* per call slot: where the call is suspended
    req,         \* per call slot: the call's arguments
    secrets,     \* per call slot: the local `secret` / `secrets`
    lookups,     \* per call slot: repository queries issued by the call
    invoked,     \* per call slot: validator invocations made by the call
    reply,       \* per call slot: what the awaited validator answered
    outcome,     \* per call slot: what the call returned or threw
    repo0,       \* history: the Secret collection as it was before any call
    met,         \* history: calls that were in flight together with another
    saltData,    \* SecretBlindIndexData collection: workspaces with a record
    created,     \* results of createSecretBlindIndexHelper calls
    looked       \* results of getSecretBlindIndexHelper calls

indexVars == <<saltData, created, looked>>

vars == <<repo, pc, req, secrets, lookups, invoked, reply, outcome, repo0, met,
          saltData, created, looked>>

\* -------------------------------------------------------------- the data
SecretIds == 1..NumIds
Calls == 1..MaxCalls
Workspaces == {"W1", "W2"}

\* The document stored under an identifier: every secret belongs to exactly
\* one workspace and one environment.
SecretDoc(id) ==
    [_id |-> id,
     workspace |-> IF id % 2 = 1 THEN "W1" ELSE "W2",
     environment |-> IF id <= 2 THEN "prod" ELSE "dev"]

\* The value `undefined`: what a function returns that ends without a return
\* statement.
Undefined == [undefined |-> TRUE]

\* What Secret.findById resolves to when no document matches.
Null == [_id |-> 0, workspace |-> "null", environment |-> "null"]

AUTH_MODE_JWT == "jwt"
AUTH_MODE_SERVICE_ACCOUNT == "serviceAccount"
AUTH_MODE_SERVICE_TOKEN == "serviceToken"
AUTH_MODE_API_KEY == "apiKey"

\* authMode is a string: the four known modes and one that is none of them.
AuthModes == {AUTH_MODE_JWT, AUTH_MODE_SERVICE_ACCOUNT, AUTH_MODE_SERVICE_TOKEN,
              AUTH_MODE_API_KEY, "other"}

\* authPayload: IUser | IServiceAccount | IServiceTokenData; `class` is what
\* instanceof tests.
AuthPayloads == {[class |-> "User", name |-> "u1"],
                 [class |-> "ServiceAccount", name |-> "sa1"],
                 [class |-> "ServiceTokenData", name |-> "st1"]}

AuthData == [authMode : AuthModes, authPayload : AuthPayloads]

AcceptedRoles == {{"admin"}, {"admin", "member"}}
RequiredPermissions == {{"read"}, {"read", "write"}}

RECURSIVE SeqsUpTo(_, _)
SeqsUpTo(S, n) ==
    IF n = 0 THEN {<<>>}
    ELSE LET shorter == SeqsUpTo(S, n - 1)
         IN  shorter \cup {Append(s, x) : s \in {t \in shorter : Len(t) = n - 1}, x \in S}

\* The arguments of validateClientForSecret.
SecretRequests ==
    [fn : {"validateClientForSecret"}, authData : AuthData, secretId : SecretIds,
     acceptedRoles : AcceptedRoles, requiredPermissions : RequiredPermissions]

\* The arguments of validateClientForSecrets (it takes no acceptedRoles).
SecretsRequests ==
    [fn : {"validateClientForSecrets"}, authData : AuthData,
     secretIds : SeqsUpTo(SecretIds, MaxBatch),
     requiredPermissions : RequiredPermissions]

NoRequest == [fn |-> "none"]

\* ------------------------------------------------------------- the errors
SecretNotFoundError == [name |-> "SecretNotFoundError", message |-> "Failed to find secret"]
BadRequestError ==
    [name |-> "BadRequestError", message |-> "Failed to validate non-existent secrets"]
UnauthorizedForSecret ==
    [name |-> "UnauthorizedRequestError", message |-> "Failed client authorization for secret"]
UnauthorizedForSecrets ==
    [name |-> "UnauthorizedRequestError",
     message |-> "Failed client authorization for secrets resource"]

\* What an awaited validator can answer: it resolves, or it rejects with an
\* error of its own.
Resolved == [name |-> "resolved", message |-> ""]
ValidatorFailures ==
    {[name |-> "UnauthorizedRequestError", message |-> "validator: access denied"],
     [name |-> "ValidatorError", message |-> "validator: lookup failed"]}
ValidatorReplies == {Resolved} \cup ValidatorFailures
NoReply == [name |-> "none", message |-> ""]

Pending == [kind |-> "pending"]
Thrown(e) == [kind |-> "thrown", error |-> e]
Returned(v) == [kind |-> "returned", value |-> v]

\* ------------------------------------------------- the repository queries
\* Secret.findById(secretId): the document with that _id, or null.
FindById(r, id) == IF id \in DOMAIN r THEN r[id] ELSE Null

Range(s) == {s[i] : i \in 1..Len(s)}

RECURSIVE FindFrom(_, _, _)
FindFrom(r, S, i) ==
    IF i > NumIds THEN <<>>
    ELSE (IF i \in S /\ i \in DOMAIN r THEN <<r[i]>> ELSE <<>>) \o FindFrom(r, S, i + 1)

\* Secret.find({ _id: { $in: secretIds } }): every stored document whose _id
\* is among secretIds, each document once, in the collection's order.
Find(r, secretIds) == FindFrom(r, Range(secretIds), 1)

\* Mutant: the test is `secret === undefined`, which null does not pass.
SecretIsUndefined(secret) == secret = Undefined

\* `!secret`
SecretMissing(secret) == secret = Null

\* Mutant: the test is `secrets.length > secretIds.length`.
CountExceeds(found, secretIds) == Len(found) > Len(secretIds)

\* `secrets.length != secretIds.length`
CountMismatch(found, secretIds) == Len(found) # Len(secretIds)

\* Mutant: `secret` / `secrets` is declared at module level, one variable for
\* every call.
ShareLocal(loc, c, v) == [d \in DOMAIN loc |-> v]

\* `secret` and `secrets` are locals of the call that assigns them.
KeepLocal(loc, c, v) == [loc EXCEPT ![c] = v]

\* ------------------------------------------------------------ the dispatch
InstanceOf(payload, class) == payload.class = class

\* Mutant: the chain tests authMode alone, without the instanceof tests.
ValidatorForSecretByMode(authData) ==
    IF authData.authMode = AUTH_MODE_JWT THEN "validateUserClientForSecret"
    ELSE IF authData.authMode = AUTH_MODE_SERVICE_ACCOUNT
    THEN "validateServiceAccountClientForWorkspace"
    ELSE IF authData.authMode = AUTH_MODE_SERVICE_TOKEN
    THEN "validateServiceTokenDataClientForWorkspace"
    ELSE IF authData.authMode = AUTH_MODE_API_KEY THEN "validateUserClientForSecret"
    ELSE "none"

\* The chain of `if (authMode === ... && authPayload instanceof ...)` of
\* validateClientForSecret: the validator of the first test that passes.
ValidatorForSecret(authData) ==
    IF authData.authMode = AUTH_MODE_JWT /\ InstanceOf(authData.authPayload, "User")
    THEN "validateUserClientForSecret"
    ELSE IF authData.authMode = AUTH_MODE_SERVICE_ACCOUNT
            /\ InstanceOf(authData.authPayload, "ServiceAccount")
    THEN "validateServiceAccountClientForWorkspace"
    ELSE IF authData.authMode = AUTH_MODE_SERVICE_TOKEN
            /\ InstanceOf(authData.authPayload, "ServiceTokenData")
    THEN "validateServiceTokenDataClientForWorkspace"
    ELSE IF authData.authMode = AUTH_MODE_API_KEY /\ InstanceOf(authData.authPayload, "User")
    THEN "validateUserClientForSecret"
    ELSE "none"

\* Mutant: the service-token validator is handed requiredPermissions too.
ArgsForSecretWithPermissions(validator, r, secret) ==
    CASE validator = "validateUserClientForSecret" ->
            [fn |-> validator, user |-> r.authData.authPayload, secret |-> secret,
             acceptedRoles |-> r.acceptedRoles,
             requiredPermissions |-> r.requiredPermissions]
      [] validator = "validateServiceAccountClientForWorkspace" ->
            [fn |-> validator, serviceAccount |-> r.authData.authPayload,
             workspaceId |-> secret.workspace, environment |-> secret.environment,
             requiredPermissions |-> r.requiredPermissions]
      [] validator = "validateServiceTokenDataClientForWorkspace" ->
            [fn |-> validator, serviceTokenData |-> r.authData.authPayload,
             workspaceId |-> secret.workspace, environment |-> secret.environment,
             requiredPermissions |-> r.requiredPermissions]

\* The object validateClientForSecret hands to the validator it selected.
ArgsForSecret(validator, r, secret) ==
    CASE validator = "validateUserClientForSecret" ->
            [fn |-> validator, user |-> r.authData.authPayload, secret |-> secret,
             acceptedRoles |-> r.acceptedRoles,
             requiredPermissions |-> r.requiredPermissions]
      [] validator = "validateServiceAccountClientForWorkspace" ->
            [fn |-> validator, serviceAccount |-> r.authData.authPayload,
             workspaceId |-> secret.workspace, environment |-> secret.environment,
             requiredPermissions |-> r.requiredPermissions]
      [] validator = "validateServiceTokenDataClientForWorkspace" ->
            [fn |-> validator, serviceTokenData |-> r.authData.authPayload,
             workspaceId |-> secret.workspace, environment |-> secret.environment]

\* The same chain in validateClientForSecrets.
ValidatorForSecrets(authData) ==
    IF authData.authMode = AUTH_MODE_JWT /\ InstanceOf(authData.authPayload, "User")
    THEN "validateUserClientForSecrets"
    ELSE IF authData.authMode = AUTH_MODE_SERVICE_ACCOUNT
            /\ InstanceOf(authData.authPayload, "ServiceAccount")
    THEN "validateServiceAccountClientForSecrets"
    ELSE IF authData.authMode = AUTH_MODE_SERVICE_TOKEN
            /\ InstanceOf(authData.authPayload, "ServiceTokenData")
    THEN "validateServiceTokenDataClientForSecrets"
    ELSE IF authData.authMode = AUTH_MODE_API_KEY /\ InstanceOf(authData.authPayload, "User")
    THEN "validateUserClientForSecrets"
    ELSE "none"

\* The object validateClientForSecrets hands to the validator it selected.
ArgsForSecrets(validator, r, found) ==
    CASE validator = "validateUserClientForSecrets" ->
            [fn |-> validator, user |-> r.authData.authPayload, secrets |-> found,
             requiredPermissions |-> r.requiredPermissions]
      [] validator = "validateServiceAccountClientForSecrets" ->
            [fn |-> validator, serviceAccount |-> r.authData.authPayload,
             secrets |-> found, requiredPermissions |-> r.requiredPermissions]
      [] validator = "validateServiceTokenDataClientForSecrets" ->
            [fn |-> validator, serviceTokenData |-> r.authData.authPayload,
             secrets |-> found, requiredPermissions |-> r.requiredPermissions]

\* Mutant: the await is wrapped in a try/catch that throws the dispatcher's own
\* UnauthorizedRequestError.
ResultForSecretCaught(rep, secret) ==
    IF rep = Resolved THEN Returned(secret) ELSE Thrown(UnauthorizedForSecret)

\* `await validate...(...); return secret;` with no try/catch around it.
ResultForSecret(rep, secret) == IF rep = Resolved THEN Returned(secret) ELSE Thrown(rep)

\* Mutant: a rejection is caught and the secrets but the last are returned.
ResultForSecretsPartial(rep, found) ==
    IF rep = Resolved THEN Returned(found)
    ELSE Returned(SubSeq(found, 1, Len(found) - 1))

\* `await validate...(...); return secrets;` with no try/catch around it.
ResultForSecrets(rep, found) == IF rep = Resolved THEN Returned(found) ELSE Thrown(rep)

\* ------------------------------------------------------------- the actions
NoCallYet == \A c \in Calls : pc[c] = "idle"

InFlight == {c \in Calls : pc[c] \notin {"idle", "done"}}

\* History only: call c is entered while the calls of InFlight are suspended.
MetAfter(c) == IF InFlight = {} THEN met ELSE met \cup InFlight \cup {c}

\* validateClientForSecret is entered: it runs up to `await Secret.findById`.
EnterValidateClientForSecret(c, r) ==
    /\ pc[c] = "idle"
    /\ req' = [req EXCEPT ![c] = r]
    /\ lookups' = [lookups EXCEPT ![c] = @ + 1]
    /\ pc' = [pc EXCEPT ![c] = "awaitFindById"]
    /\ met' = MetAfter(c)
    /\ UNCHANGED <<repo, secrets, invoked, reply, outcome, repo0>>
    /\ UNCHANGED indexVars

\* Secret.findById resolves: the code runs on to a throw or to the await of
\* the validator it selected.
FindByIdResolves(c) ==
    /\ pc[c] = "awaitFindById"
    /\ LET secret == FindById(repo, req[c].secretId)
           validator == ValidatorForSecret(req[c].authData)
       IN  /\ secrets' = KeepLocal(secrets, c, secret)
           /\ IF SecretMissing(secret)
              THEN /\ outcome' = [outcome EXCEPT ![c] = Thrown(SecretNotFoundError)]
                   /\ pc' = [pc EXCEPT ![c] = "done"]
                   /\ UNCHANGED invoked
              ELSE IF validator = "none"
              THEN /\ outcome' = [outcome EXCEPT ![c] = Thrown(UnauthorizedForSecret)]
                   /\ pc' = [pc EXCEPT ![c] = "done"]
                   /\ UNCHANGED invoked
              ELSE /\ invoked' = [invoked EXCEPT
                                    ![c] = Append(@, ArgsForSecret(validator, req[c], secret))]
                   /\ pc' = [pc EXCEPT ![c] = "awaitValidator"]
                   /\ UNCHANGED outcome
    /\ UNCHANGED <<repo, req, lookups, reply, repo0, met>>
    /\ UNCHANGED indexVars

\* validateClientForSecrets is entered: `secrets = []`, then it runs up to
\* `await Secret.find`.
EnterValidateClientForSecrets(c, r) ==
    /\ pc[c] = "idle"
    /\ req' = [req EXCEPT ![c] = r]
    /\ secrets' = KeepLocal(secrets, c, <<>>)
    /\ lookups' = [lookups EXCEPT ![c] = @ + 1]
    /\ pc' = [pc EXCEPT ![c] = "awaitFind"]
    /\ met' = MetAfter(c)
    /\ UNCHANGED <<repo, invoked, reply, outcome, repo0>>
    /\ UNCHANGED indexVars

\* Secret.find resolves: the code runs on to a throw or to the await of the
\* validator it selected.
FindResolves(c) ==
    /\ pc[c] = "awaitFind"
    /\ LET found == Find(repo, req[c].secretIds)
           validator == ValidatorForSecrets(req[c].authData)
       IN  /\ secrets' = KeepLocal(secrets, c, found)
           /\ IF CountMismatch(found, req[c].secretIds)
              THEN /\ outcome' = [outcome EXCEPT ![c] = Thrown(BadRequestError)]
                   /\ pc' = [pc EXCEPT ![c] = "done"]
                   /\ UNCHANGED invoked
              ELSE IF validator = "none"
              THEN /\ outcome' = [outcome EXCEPT ![c] = Thrown(UnauthorizedForSecrets)]
                   /\ pc' = [pc EXCEPT ![c] = "done"]
                   /\ UNCHANGED invoked
              ELSE /\ invoked' = [invoked EXCEPT
                                    ![c] = Append(@, ArgsForSecrets(validator, req[c], found))]
                   /\ pc' = [pc EXCEPT ![c] = "awaitValidator"]
                   /\ UNCHANGED outcome
    /\ UNCHANGED <<repo, req, lookups, reply, repo0, met>>
    /\ UNCHANGED indexVars

\* The awaited validator settles: the call returns what it fetched, or the
\* validator's rejection leaves the call as it is.
ValidatorSettles(c) ==
    /\ pc[c] = "awaitValidator"
    /\ \E rep \in ValidatorReplies :
          /\ reply' = [reply EXCEPT ![c] = rep]
          /\ outcome' = [outcome EXCEPT
                           ![c] = IF req[c].fn = "validateClientForSecret"
                                  THEN ResultForSecret(rep, secrets[c])
                                  ELSE ResultForSecrets(rep, secrets[c])]
    /\ pc' = [pc EXCEPT ![c] = "done"]
    /\ UNCHANGED <<repo, req, secrets, lookups, invoked, repo0, met>>
    /\ UNCHANGED indexVars

\* ------------------------------------------------------ the specifications
Repositories == {[id \in S |-> SecretDoc(id)] : S \in SUBSET SecretIds}

AuthInit(r) ==
    /\ repo = r
    /\ repo0 = r
    /\ pc = [c \in Calls |-> "idle"]
    /\ req = [c \in Calls |-> NoRequest]
    /\ secrets = [c \in Calls |-> <<>>]
    /\ lookups = [c \in Calls |-> 0]
    /\ invoked = [c \in Calls |-> <<>>]
    /\ reply = [c \in Calls |-> NoReply]
    /\ outcome = [c \in Calls |-> Pending]
    /\ met = {}

IndexIdle ==
    /\ saltData = {}
    /\ created = <<>>
    /\ looked = <<>>

\* One call of the dispatcher, with any arguments, against any repository.
Init ==
    /\ \E r \in Repositories : AuthInit(r)
    /\ IndexIdle

Next ==
    \E c \in Calls :
        \/ NoCallYet /\ \E r \in SecretRequests : EnterValidateClientForSecret(c, r)
        \/ NoCallYet /\ \E r \in SecretsRequests : EnterValidateClientForSecrets(c, r)
        \/ FindByIdResolves(c)
        \/ FindResolves(c)
        \/ ValidatorSettles(c)

Spec == Init /\ [][Next]_vars

\* Calls in flight together: every slot can be entered at any time, with the
\* requests of ConcurrentRequests, against a repository that lacks the last
\* identifier.
ConcurrentAuthData ==
    {[authMode |-> AUTH_MODE_JWT, authPayload |-> [class |-> "User", name |-> "u1"]],
     [authMode |-> AUTH_MODE_SERVICE_TOKEN,
      authPayload |-> [class |-> "ServiceTokenData", name |-> "st1"]],
     [authMode |-> AUTH_MODE_API_KEY,
      authPayload |-> [class |-> "ServiceAccount", name |-> "sa1"]]}

ConcurrentSecretRequests ==
    [fn : {"validateClientForSecret"}, authData : ConcurrentAuthData,
     secretId : {1, NumIds}, acceptedRoles : {{"admin", "member"}},
     requiredPermissions : {{"read"}}]

ConcurrentSecretsRequests ==
    [fn : {"validateClientForSecrets"}, authData : ConcurrentAuthData,
     secretIds : {<<1, 2>>, <<1, NumIds>>}, requiredPermissions : {{"read"}}]

InitConcurrent ==
    /\ AuthInit([id \in SecretIds \ {NumIds} |-> SecretDoc(id)])
    /\ IndexIdle

NextConcurrent ==
    \E c \in Calls :
        \/ \E r \in ConcurrentSecretRequests : EnterValidateClientForSecret(c, r)
        \/ \E r \in ConcurrentSecretsRequests : EnterValidateClientForSecrets(c, r)
        \/ FindByIdResolves(c)
        \/ FindResolves(c)
        \/ ValidatorSettles(c)

SpecConcurrent == InitConcurrent /\ [][NextConcurrent]_vars

\* ---------------------------------------------------------- the blind index
SecretNames == {"DB_PASSWORD", "API_KEY"}

\* The values crypto.randomBytes(16) can return.
Salts == 1..NumSalts

\* argon2.hash(secretName, {type: argon2id, salt, saltLength: 16, memoryCost:
\* 65536, hashLength: 32, parallelism: 1, raw: true}): the digest is a function
\* of the password, the salt and the parameters, and of nothing else; distinct
\* inputs give distinct digests.
Argon2Hash(password, salt) ==
    [type |-> "argon2id", password |-> password, salt |-> salt, saltLength |-> 16,
     memoryCost |-> 65536, hashLength |-> 32, parallelism |-> 1, raw |-> TRUE]

\* Buffer.toString('base64'): a string that determines the buffer.
ToBase64(buffer) == [base64 |-> buffer]

\* createSecretBlindIndexHelper, given what crypto.randomBytes returned to it:
\* workspaceId is not used.
CreateSecretBlindIndex(secretName, workspaceId, randomBytes) ==
    ToBase64(Argon2Hash(secretName, randomBytes))

\* getSecretBlindIndexHelper, given what SecretBlindIndexData.findOne resolved
\* to: the `if (!secretBlindIndexData)` block is empty and nothing is returned.
GetSecretBlindIndex(secretName, workspaceId, secretBlindIndexData) ==
    IF ~secretBlindIndexData THEN Undefined ELSE Undefined

IndexCalls == Len(created) + Len(looked)

createSecretBlindIndexHelper ==
    /\ IndexCalls < MaxIndexCalls
    /\ \E secretName \in SecretNames, workspaceId \in Workspaces, randomBytes \in Salts :
          created' = Append(created,
                            [secretName |-> secretName, workspaceId |-> workspaceId,
                             result |-> CreateSecretBlindIndex(secretName, workspaceId,
                                                               randomBytes)])
    /\ UNCHANGED <<saltData, looked>>
    /\ UNCHANGED <<repo, pc, req, secrets, lookups, invoked, reply, outcome, repo0, met>>

getSecretBlindIndexHelper ==
    /\ IndexCalls < MaxIndexCalls
    /\ \E secretName \in SecretNames, workspaceId \in Workspaces :
          looked' = Append(looked,
                           [secretName |-> secretName, workspaceId |-> workspaceId,
                            result |-> GetSecretBlindIndex(secretName, workspaceId,
                                                           workspaceId \in saltData)])
    /\ UNCHANGED <<saltData, created>>
    /\ UNCHANGED <<repo, pc, req, secrets, lookups, invoked, reply, outcome, repo0, met>>

\* Calls of the two blind-index helpers, in any order, in a deployment where
\* any set of workspaces has its SecretBlindIndexData record.
InitIndex ==
    /\ AuthInit([id \in SecretIds |-> SecretDoc(id)])
    /\ saltData \in SUBSET Workspaces
    /\ created = <<>>
    /\ looked = <<>>

NextIndex == createSecretBlindIndexHelper \/ getSecretBlindIndexHelper

SpecIndex == InitIndex /\ [][NextIndex]_vars

\* ================================================================ claims
\* What the claims speak of, stated from the repository's contents and the
\* call's arguments.
Done(c) == pc[c] = "done"
IsSecretCall(c) == req[c].fn = "validateClientForSecret"
IsSecretsCall(c) == req[c].fn = "validateClientForSecrets"

\* The contexts whose kind tag is one of the four kinds and whose payload is
\* of the type that kind carries.
AgreeingContexts ==
    {[authMode |-> AUTH_MODE_JWT, class |-> "User"],
     [authMode |-> AUTH_MODE_SERVICE_ACCOUNT, class |-> "ServiceAccount"],
     [authMode |-> AUTH_MODE_SERVICE_TOKEN, class |-> "ServiceTokenData"],
     [authMode |-> AUTH_MODE_API_KEY, class |-> "User"]}

Agrees(authData) ==
    [authMode |-> authData.authMode, class |-> authData.authPayload.class]
        \in AgreeingContexts

Stored(ids) == {id \in Range(ids) : id \in DOMAIN repo}

\* The number of records the repository returns for secretIds differs from
\* the number of identifiers requested.
CountDiffers(c) == Cardinality(Stored(req[c].secretIds)) # Len(req[c].secretIds)

SecretAbsent(c) == req[c].secretId \notin DOMAIN repo

\* C3: in validateClientForSecrets, whenever the number of records the
\* repository returns differs from the number of requested identifiers, the
\* call fails with BadRequest once the query has resolved, and at no point of
\* the call is a validator invoked, whatever the context.
C3_CountMismatchIsBadRequest ==
    \A c \in Calls :
        (IsSecretsCall(c) /\ CountDiffers(c)) =>
            /\ invoked[c] = <<>>
            /\ pc[c] \in {"awaitFind", "done"}
            /\ Done(c) => outcome[c] = Thrown(BadRequestError)

C3_Witness ==
    \E c \in Calls :
        /\ IsSecretsCall(c) /\ Done(c) /\ CountDiffers(c)
        /\ Agrees(req[c].authData)
        /\ Stored(req[c].secretIds) # {}
        /\ outcome[c] = Thrown(BadRequestError)

\* C4: for every secret identifier that is not in the repository and every
\* context, validateClientForSecret fails with NotFound and invokes no
\* validator.
C4_AbsentSecretIsNotFound ==
    \A c \in Calls :
        (IsSecretCall(c) /\ SecretAbsent(c)) =>
            /\ invoked[c] = <<>>
            /\ pc[c] \in {"awaitFindById", "done"}
            /\ Done(c) => outcome[c] = Thrown(SecretNotFoundError)

C4_Witness ==
    \E c \in Calls :
        /\ IsSecretCall(c) /\ Done(c) /\ SecretAbsent(c)
        /\ Agrees(req[c].authData)
        /\ outcome[c] = Thrown(SecretNotFoundError)

FailedUnauthorized(c) ==
    /\ outcome[c].kind = "thrown"
    /\ outcome[c].error.name = "UnauthorizedRequestError"

\* C5 as stated: for every context of an unrecognized kind or with a payload
\* that disagrees with its tag, every call of validateClientForSecret and
\* validateClientForSecrets fails with Unauthorized and invokes no validator.
C5_Original ==
    \A c \in Calls :
        (req[c] # NoRequest /\ ~Agrees(req[c].authData)) =>
            /\ invoked[c] = <<>>
            /\ Done(c) => FailedUnauthorized(c)

\* C5 as amended: for every such context no validator is invoked; the call
\* fails with Unauthorized when its repository lookup resolved (the secret
\* exists, the count of fetched records equals the count requested), and
\* with NotFound (one secret) or BadRequest (a batch) when it did not.
C5_DisagreeingContextIsUnauthorized ==
    \A c \in Calls :
        (req[c] # NoRequest /\ ~Agrees(req[c].authData)) =>
            /\ invoked[c] = <<>>
            /\ pc[c] # "awaitValidator"
            /\ (Done(c) /\ IsSecretCall(c)) =>
                  outcome[c] = IF SecretAbsent(c) THEN Thrown(SecretNotFoundError)
                               ELSE Thrown(UnauthorizedForSecret)
            /\ (Done(c) /\ IsSecretsCall(c)) =>
                  outcome[c] = IF CountDiffers(c) THEN Thrown(BadRequestError)
                               ELSE Thrown(UnauthorizedForSecrets)

C5_Witness ==
    \E c \in Calls :
        /\ IsSecretCall(c) /\ Done(c) /\ ~SecretAbsent(c)
        /\ req[c].authData.authMode = AUTH_MODE_JWT
        /\ req[c].authData.authPayload.class = "ServiceAccount"
        /\ outcome[c] = Thrown(UnauthorizedForSecret)

\* C6: validateClientForSecrets is all-or-nothing: it returns only when the
\* validator it selected resolved, and then it returns exactly the stored
\* records of the requested identifiers, each once and all of them; when the
\* validator resolved it does return; every other outcome is a throw, which
\* carries no secret.
C6_BatchAllOrNothing ==
    \A c \in Calls :
        (IsSecretsCall(c) /\ Done(c)) =>
            /\ outcome[c].kind \in {"returned", "thrown"}
            /\ outcome[c].kind = "returned" <=> reply[c] = Resolved
            /\ outcome[c].kind = "returned" =>
                  /\ Range(req[c].secretIds) \subseteq DOMAIN repo
                  /\ Range(outcome[c].value) = {repo[id] : id \in Range(req[c].secretIds)}
                  /\ Len(outcome[c].value) = Len(req[c].secretIds)
                  /\ Len(invoked[c]) = 1
            /\ outcome[c].kind = "thrown" => DOMAIN outcome[c] = {"kind", "error"}

C6_Witness ==
    \E c \in Calls :
        /\ IsSecretsCall(c) /\ Done(c)
        /\ outcome[c].kind = "returned"
        /\ Len(outcome[c].value) >= 2

\* C7: when the validator a call awaited fails, the call ends with exactly
\* that failure and returns nothing; every call issues one repository query
\* and invokes at most one validator, also after it has ended.
C7_ValidatorFailurePropagates ==
    \A c \in Calls :
        /\ reply[c] \in ValidatorFailures => (Done(c) /\ outcome[c] = Thrown(reply[c]))
        /\ lookups[c] <= 1
        /\ Len(invoked[c]) <= 1
        /\ req[c] # NoRequest => lookups[c] = 1

C7_Witness ==
    \E c \in Calls :
        /\ Done(c) /\ IsSecretCall(c)
        /\ reply[c] \in ValidatorFailures
        /\ reply[c].name = "UnauthorizedRequestError"
        /\ outcome[c] = Thrown(reply[c])
        /\ lookups[c] = 1 /\ Len(invoked[c]) = 1

\* C8: validateClientForSecrets fails with BadRequest only when one of the
\* requested identifiers is not in the repository: a call whose identifiers
\* all exist (repeated or not) does not fail with BadRequest.
C8_BadRequestOnlyIfMissing ==
    \A c \in Calls :
        (IsSecretsCall(c) /\ Done(c) /\ Range(req[c].secretIds) \subseteq DOMAIN repo) =>
            outcome[c] # Thrown(BadRequestError)

\* The kind of a context that agrees.
IsUserKind(a) == a.authMode \in {AUTH_MODE_JWT, AUTH_MODE_API_KEY}
IsServiceAccountKind(a) == a.authMode = AUTH_MODE_SERVICE_ACCOUNT

\* The invocation the claim lists for a validateClientForSecret call.
ListedForSecret(r) ==
    LET secret == repo[r.secretId]
        principal == r.authData.authPayload
    IN  IF IsUserKind(r.authData)
        THEN [fn |-> "validateUserClientForSecret", user |-> principal, secret |-> secret,
              acceptedRoles |-> r.acceptedRoles,
              requiredPermissions |-> r.requiredPermissions]
        ELSE IF IsServiceAccountKind(r.authData)
        THEN [fn |-> "validateServiceAccountClientForWorkspace",
              serviceAccount |-> principal, workspaceId |-> secret.workspace,
              environment |-> secret.environment,
              requiredPermissions |-> r.requiredPermissions]
        ELSE [fn |-> "validateServiceTokenDataClientForWorkspace",
              serviceTokenData |-> principal, workspaceId |-> secret.workspace,
              environment |-> secret.environment]

\* The argument names of the batch variant of each kind's validator, with the
\* permission list handed to the service-token variant or not.
ListedNamesForSecrets(r, tokenPermissions) ==
    IF IsUserKind(r.authData) THEN {"fn", "user", "secrets", "requiredPermissions"}
    ELSE IF IsServiceAccountKind(r.authData)
    THEN {"fn", "serviceAccount", "secrets", "requiredPermissions"}
    ELSE IF tokenPermissions
    THEN {"fn", "serviceTokenData", "secrets", "requiredPermissions"}
    ELSE {"fn", "serviceTokenData", "secrets"}

\* Invocation inv is the batch variant of the kind's validator, handed the
\* principal, the whole fetched batch and (where listed) requiredPermissions.
IsListedForSecrets(inv, r, tokenPermissions) ==
    /\ DOMAIN inv = ListedNamesForSecrets(r, tokenPermissions)
    /\ IF IsUserKind(r.authData)
       THEN inv.fn = "validateUserClientForSecrets" /\ inv.user = r.authData.authPayload
       ELSE IF IsServiceAccountKind(r.authData)
       THEN /\ inv.fn = "validateServiceAccountClientForSecrets"
            /\ inv.serviceAccount = r.authData.authPayload
       ELSE /\ inv.fn = "validateServiceTokenDataClientForSecrets"
            /\ inv.serviceTokenData = r.authData.authPayload
    /\ Range(inv.secrets) = {repo[id] : id \in Range(r.secretIds)}
    /\ Len(inv.secrets) = Len(r.secretIds)
    /\ "requiredPermissions" \in DOMAIN inv => inv.requiredPermissions = r.requiredPermissions

\* A call that reached its validator invoked exactly the listed one.
InvokedAsListed(c, tokenPermissions) ==
    /\ Len(invoked[c]) <= 1
    /\ (pc[c] = "awaitValidator" \/ reply[c] # NoReply) =>
          /\ Len(invoked[c]) = 1
          /\ Agrees(req[c].authData)
    /\ (Len(invoked[c]) = 1 /\ IsSecretCall(c)) => invoked[c][1] = ListedForSecret(req[c])
    /\ (Len(invoked[c]) = 1 /\ IsSecretsCall(c)) =>
          IsListedForSecrets(invoked[c][1], req[c], tokenPermissions)

RunAlone(q, r, rep) ==
    IF q.fn = "validateClientForSecret"
    THEN LET secret == FindById(r, q.secretId)
         IN  IF SecretMissing(secret) THEN Thrown(SecretNotFoundError)
             ELSE IF ValidatorForSecret(q.authData) = "none"
             THEN Thrown(UnauthorizedForSecret)
             ELSE ResultForSecret(rep, secret)
    ELSE LET found == Find(r, q.secretIds)
         IN  IF CountMismatch(found, q.secretIds) THEN Thrown(BadRequestError)
             ELSE IF ValidatorForSecrets(q.authData) = "none"
             THEN Thrown(UnauthorizedForSecrets)
             ELSE ResultForSecrets(rep, found)

\* The validator invocations of the same lone run.
InvokedAlone(q, r) ==
    IF q.fn = "validateClientForSecret"
    THEN LET secret == FindById(r, q.secretId)
             validator == ValidatorForSecret(q.authData)
         IN  IF SecretMissing(secret) \/ validator = "none" THEN <<>>
             ELSE <<ArgsForSecret(validator, q, secret)>>
    ELSE LET found == Find(r, q.secretIds)
             validator == ValidatorForSecrets(q.authData)
         IN  IF CountMismatch(found, q.secretIds) \/ validator = "none" THEN <<>>
             ELSE <<ArgsForSecrets(validator, q, found)>>

\* C10: with calls interleaved at their suspension points in any way, every
\* call that has ended has the outcome, and has made the validator
\* invocation, of its lone run against the same repository with the same
\* validator answer, and the repository is what it was before any call.
C10_CallsAreIndependent ==
    /\ repo = repo0
    /\ \A c \in Calls :
          Done(c) =>
              /\ outcome[c] = RunAlone(req[c], repo0, reply[c])
              /\ invoked[c] = InvokedAlone(req[c], repo0)

C10_Witness ==
    \E c, d \in Calls :
        /\ c # d /\ Done(c) /\ Done(d)
        /\ {c, d} \subseteq met
        /\ IsSecretCall(c) /\ IsSecretsCall(d)
        /\ req[c].secretId \in Range(req[d].secretIds)
        /\ req[c].authData # req[d].authData
        /\ outcome[c].kind = "returned"
        /\ outcome[d].kind = "returned"

SamePair(a, b) == a.secretName = b.secretName /\ a.workspaceId = b.workspaceId

\* C1: createSecretBlindIndexHelper is deterministic: any two calls with the
\* same (secretName, workspaceId), in any order and with any other calls in
\* between, return the same value.
C1_CreateIsDeterministic ==
    \A i, j \in 1..Len(created) :
        SamePair(created[i], created[j]) => created[i].result = created[j].result

\* C2: getSecretBlindIndexHelper returns, for every (secretName, workspaceId),
\* the value createSecretBlindIndexHelper returned for that pair.
C2_GetEqualsCreate ==
    \A i \in 1..Len(looked), j \in 1..Len(created) :
        SamePair(looked[i], created[j]) => looked[i].result = created[j].result

====
